---- MODULE Spec2Model ----
(***************************************************************************)
(* Model of polymarket_apis' websocket client                              *)
(* (clients/websockets_client.py, types/websockets_types.py):              *)
(*   - the three reconnecting socket coroutines market_socket, user_socket *)
(*     and live_data_socket (specification Spec),                          *)
(*   - the three default event processors _process_market_event,           *)
(*     _process_user_event and _process_live_data_event applied to         *)
(*     one parsed frame (specification DecodeSpec).                        *)
(***************************************************************************)
EXTENDS Integers, Sequences, FiniteSets, TLC

VARIABLES
    \* ---- socket coroutines (one per channel) ----
    pc,          \* position of each coroutine
    handler,     \* process_event argument: "default" or "custom"
    subs,        \* live_data_socket: the caller's subscriptions list
    creds,       \* user_socket / live_data_socket: creds argument ("none" = None)
    flag,        \* market_socket: custom_feature_enabled argument
    payload,     \* live_data_socket: payload["subscriptions"]
    attempts,    \* calls of websockets.connect made so far
    sent,        \* frames sent on the current connection
    wire,        \* the last frame sent
    first,       \* the first frame sent since the coroutine was called
    cur,         \* data handed to the process_event call in progress
    calls,       \* invocations of process_event so far
    done,        \* invocations of process_event that have ended
    curSeq,      \* arrival number of the last message given to process_event
    parsed,      \* messages json.loads accepted so far
    decodeErrs,  \* "Failed to decode message" lines printed so far
    procErrs,    \* "Error processing message" lines printed so far
    hexc,        \* exception that left the last finished process_event call
    slept,       \* argument of the asyncio.sleep in progress or last done
    faults,      \* transport operations that failed so far (environment)
    closes,      \* normal closes of the connection so far (environment)
    delivered,   \* messages delivered so far (environment)
    \* ---- one run of a default event processor ----
    dchan,       \* the channel whose processor runs
    dframe,      \* the parsed JSON value wrapped in the EventWrapper
    dres,        \* what the processor printed and what it raised
    dpc,         \* "ready" before the call, "done" after it
    \* ---- threads calling generate_orderbook_summary_hash ----
    orderbook,   \* the OrderBookSummary objects: their fields now
    constructed, \* the OrderBookSummary objects as the decoder built them
    arg,         \* the object each thread passes as orderbook
    atEntry,     \* the fields of that object when the thread's call began
    hpc,         \* the line each thread is about to run
    server_hash, \* local variable of each thread's call
    computed_hash, \* local variable of each thread's call
    hcalls,      \* calls each thread has begun
    rets,        \* the values each thread's calls returned, in order
    \* ---- calls of the numeric helpers on one set of arguments ----
    ngroup,      \* which helpers are called: "round", "places" or "price"
    nx,          \* the Decimal argument (x or price)
    nsig,        \* the sig_digits argument
    ntick,       \* the tick_size argument
    nres         \* what each helper's call gave; "pending" before the call

supVars == <<pc, handler, subs, creds, flag, payload, attempts, sent, wire,
             first, cur, calls, done, curSeq, parsed, decodeErrs, procErrs,
             hexc, slept, faults, closes, delivered>>
decVars == <<dchan, dframe, dres, dpc>>
\* the variables the socket coroutines leave alone
hashVars == <<orderbook, constructed, arg, atEntry, hpc, server_hash,
              computed_hash, hcalls, rets>>
numVars == <<ngroup, nx, nsig, ntick, nres>>
pureVars == <<decVars, hashVars, numVars>>
vars == <<supVars, pureVars>>

Channels == {"market", "user", "live_data"}

----------------------------------------------------------------------------
(* Bounds *)
MaxItems == 3        \* longest array frame
MaxSubs == 2         \* longest subscriptions list
MaxFaults == 2       \* transport faults the environment injects
MaxCloses == 1       \* normal closes the environment makes
MaxDelivered == 2    \* messages the environment delivers
MaxHashCalls == 2    \* calls of generate_orderbook_summary_hash per thread
MaxTaskEvents == 3   \* failures, closes and messages when two tasks run
MaxCoef == 130       \* largest coefficient of a Decimal argument
MaxFrac == 4         \* most fractional digits of a Decimal argument
MaxPosExp == 1       \* largest exponent of an ordinary Decimal argument
MaxSigDigits == 3    \* largest sig_digits argument

----------------------------------------------------------------------------
(* JSON values.  An object is described by what the processors and the     *)
(* pydantic models look at: its event_type, its type, its topic, and the   *)
(* schema its remaining fields satisfy ("none": no schema).                *)
NoVal == "<absent>"

Obj(et, ty, topic, shape) ==
    [k |-> "obj", et |-> et, ty |-> ty, topic |-> topic, shape |-> shape,
     items |-> <<>>]
Scalar ==
    [k |-> "scalar", et |-> NoVal, ty |-> NoVal, topic |-> NoVal,
     shape |-> "none", items |-> <<>>]
Arr(items) ==
    [k |-> "arr", et |-> NoVal, ty |-> NoVal, topic |-> NoVal,
     shape |-> "none", items |-> items]
\* no value (no process_event call in progress)
NoData ==
    [k |-> "none", et |-> NoVal, ty |-> NoVal, topic |-> NoVal,
     shape |-> "none", items |-> <<>>]

\* EventWrapper: .json is the parsed value, .text its json.dumps
EventWrapper(json_data) == [json |-> json_data, text |-> [dumps |-> json_data]]

----------------------------------------------------------------------------
(* The event models of types/websockets_types.py: the field holding the    *)
(* discriminant, the Literal values it accepts, whether it may be absent,  *)
(* the Literal values of topic ({} = no topic field) and the schema of the *)
(* remaining fields.                                                       *)
Model(field, lits, optional, topics, schema) ==
    [field |-> field, lits |-> lits, optional |-> optional,
     topics |-> topics, schema |-> schema]

EventModels ==
    [OrderBookSummaryEvent |->
        Model("event_type", {"book"}, FALSE, {}, "OrderBookSummary"),
     PriceChangeEvent |->
        Model("event_type", {"price_change"}, FALSE, {}, "PriceChanges"),
     TickSizeChangeEvent |->
        Model("event_type", {"tick_size_change"}, FALSE, {}, "TickSizeChange"),
     LastTradePriceEvent |->
        Model("event_type", {"last_trade_price"}, FALSE, {}, "LastTradePrice"),
     OrderEvent |->
        Model("event_type", {"order"}, TRUE, {}, "OrderEvent"),
     TradeEvent |->
        Model("event_type", {"trade"}, TRUE, {}, "TradeEvent"),
     ActivityTradeEvent |->
        Model("type", {"trades"}, FALSE, {"activity"}, "ActivityTrade"),
     ActivityOrderMatchEvent |->
        Model("type", {"orders_matched"}, FALSE, {"activity"}, "ActivityTrade"),
     CommentEvent |->
        Model("type", {"comment_created", "comment_removed"}, FALSE,
              {"comments"}, "Comment"),
     ReactionEvent |->
        Model("type", {"reaction_created", "reaction_removed"}, FALSE,
              {"comments"}, "Reaction"),
     RequestEvent |->
        Model("type", {"request_created", "request_edited",
                       "request_canceled", "request_expired"}, FALSE,
              {"rfq"}, "Request"),
     QuoteEvent |->
        Model("type", {"quote_created", "quote_edited", "quote_canceled",
                       "quote_expired"}, FALSE, {"rfq"}, "Quote"),
     CryptoPriceUpdateEvent |->
        Model("type", {"update"}, FALSE,
              {"crypto_prices", "crypto_prices_chainlink"}, "CryptoPriceUpdate"),
     CryptoPriceSubscribeEvent |->
        Model("type", {"subscribe"}, FALSE,
              {"crypto_prices", "crypto_prices_chainlink"},
              "CryptoPriceSubscribe"),
     LiveDataOrderBookSummaryEvent |->
        Model("type", {"agg_orderbook"}, FALSE, {"clob_market"},
              "AggOrderBookSummary"),
     LiveDataPriceChangeEvent |->
        Model("type", {"price_change"}, FALSE, {"clob_market"}, "PriceChanges"),
     LiveDataLastTradePriceEvent |->
        Model("type", {"last_trade_price"}, FALSE, {"clob_market"},
              "LastTradePrice"),
     LiveDataTickSizeChangeEvent |->
        Model("type", {"tick_size_change"}, FALSE, {"clob_market"},
              "TickSizeChange"),
     MarketStatusChangeEvent |->
        Model("type", {"market_created", "market_resolved"}, FALSE,
              {"clob_market"}, "LiveDataClobMarket"),
     LiveDataOrderEvent |->
        Model("type", {"order"}, FALSE, {"clob_user"}, "OrderEvent"),
     LiveDataTradeEvent |->
        Model("type", {"trade"}, FALSE, {"clob_user"}, "TradeEvent")]

\* variant of Validates in which the discriminant field has a default, so
\* that a message without it, or with another value, still builds the model
ValidatesShapeOnly(cls, message) ==
    LET m == EventModels[cls]
    IN  /\ message.shape = m.schema
        /\ \/ m.topics = {}
           \/ message.topic \in m.topics

\* cls(**message): TRUE when pydantic builds the model, FALSE when it
\* raises ValidationError (message is a JSON object)
Validates(cls, message) ==
    LET m == EventModels[cls]
        d == IF m.field = "event_type" THEN message.et ELSE message.ty
    IN  /\ message.shape = m.schema
        /\ \/ d \in m.lits
           \/ m.optional /\ d = NoVal
        /\ \/ m.topics = {}
           \/ message.topic \in m.topics

----------------------------------------------------------------------------
(* The default event processors.  A processor's result is the sequence of  *)
(* its print calls and the exception that leaves it ("none": it returns).  *)
\* one print call: what is printed (kind), the model concerned, how the
\* value is rendered, and the JSON value it shows
Printed(kind, cls, form, value) ==
    [kind |-> kind, cls |-> cls, form |-> form, payload |-> value]

PrintModel(cls, message) == Printed("event", cls, "model", message)
PrintMessage(message) == Printed("unrecognized", "none", "json", message)
PrintErrors(cls, message) == Printed("errors", cls, "errors", message)
PrintJson(event) == Printed("raw", "none", "json", event.json)
PrintText(event) == Printed("raw", "none", "text", event.text.dumps)

Returns(out) == [out |-> out, exc |-> "none"]
Raises(out, exc) == [out |-> out, exc |-> exc]

\* message[key] on a parsed JSON value: the exception it raises, if any
SubscriptExc(message, d) ==
    IF message.k # "obj" THEN "TypeError"
    ELSE IF d = NoVal THEN "KeyError"
    ELSE "none"

\* the for loop of _process_market_event over a list message, from item i
RECURSIVE MarketItems(_, _, _)
MarketItems(items, i, out) ==
    IF i > Len(items) THEN Returns(out)
    ELSE LET item == items[i] IN
         IF item.k # "obj" THEN Raises(out, "TypeError")
         ELSE IF Validates("OrderBookSummaryEvent", item)
              THEN MarketItems(items, i + 1,
                       Append(out, PrintModel("OrderBookSummaryEvent", item)))
              \* except ValidationError: print(item.text) on a dict
              ELSE Raises(out, "AttributeError")

\* variant of MarketModelFor with two cases exchanged
MarketModelForSwapped(et) ==
    CASE et = "book" -> "OrderBookSummaryEvent"
      [] et = "price_change" -> "PriceChangeEvent"
      [] et = "tick_size_change" -> "LastTradePriceEvent"
      [] et = "last_trade_price" -> "TickSizeChangeEvent"
      [] OTHER -> "none"

\* the match statement of _process_market_event: the model built for an
\* event_type ("none": case _)
MarketModelFor(et) ==
    CASE et = "book" -> "OrderBookSummaryEvent"
      [] et = "price_change" -> "PriceChangeEvent"
      [] et = "tick_size_change" -> "TickSizeChangeEvent"
      [] et = "last_trade_price" -> "LastTradePriceEvent"
      [] OTHER -> "none"

_process_market_event(event) ==
    LET message == event.json
        cls == MarketModelFor(message.et)
    IN  IF message.k = "arr" THEN MarketItems(message.items, 1, <<>>)
        ELSE IF SubscriptExc(message, message.et) # "none"
             THEN Raises(<<>>, SubscriptExc(message, message.et))
        ELSE IF cls = "none" THEN Returns(<<PrintMessage(message)>>)
        ELSE IF Validates(cls, message)
             THEN Returns(<<PrintModel(cls, message)>>)
        \* except ValidationError
        ELSE Returns(<<PrintErrors(cls, message), PrintJson(event)>>)

\* the match statement of _process_user_event ("none": no case matches)
UserModelFor(et) ==
    CASE et = "order" -> "OrderEvent"
      [] et = "trade" -> "TradeEvent"
      [] OTHER -> "none"

_process_user_event(event) ==
    LET message == event.json
        cls == UserModelFor(message.et)
    IN  IF SubscriptExc(message, message.et) # "none"
        THEN Raises(<<>>, SubscriptExc(message, message.et))
        \* the match statement has no case _: nothing is printed
        ELSE IF cls = "none" THEN Returns(<<>>)
        ELSE IF Validates(cls, message)
             THEN Returns(<<PrintModel(cls, message)>>)
        \* except ValidationError
        ELSE Returns(<<PrintText(event), PrintErrors(cls, message)>>)

\* variant of LiveDataModelFor that lacks the case "quote_expired"
LiveDataModelForFewer(t) ==
    CASE t = "trades" -> "ActivityTradeEvent"
      [] t = "orders_matched" -> "ActivityOrderMatchEvent"
      [] t \in {"comment_created", "comment_removed"} -> "CommentEvent"
      [] t \in {"reaction_created", "reaction_removed"} -> "ReactionEvent"
      [] t \in {"request_created", "request_edited", "request_canceled",
                "request_expired"} -> "RequestEvent"
      [] t \in {"quote_created", "quote_edited", "quote_canceled"} ->
             "QuoteEvent"
      [] t = "subscribe" -> "CryptoPriceSubscribeEvent"
      [] t = "update" -> "CryptoPriceUpdateEvent"
      [] t = "agg_orderbook" -> "LiveDataOrderBookSummaryEvent"
      [] t = "price_change" -> "LiveDataPriceChangeEvent"
      [] t = "last_trade_price" -> "LiveDataLastTradePriceEvent"
      [] t = "tick_size_change" -> "LiveDataTickSizeChangeEvent"
      [] t \in {"market_created", "market_resolved"} ->
             "MarketStatusChangeEvent"
      [] t = "order" -> "LiveDataOrderEvent"
      [] t = "trade" -> "LiveDataTradeEvent"
      [] OTHER -> "none"

\* the match statement of _process_live_data_event ("none": case _)
LiveDataModelFor(t) ==
    CASE t = "trades" -> "ActivityTradeEvent"
      [] t = "orders_matched" -> "ActivityOrderMatchEvent"
      [] t \in {"comment_created", "comment_removed"} -> "CommentEvent"
      [] t \in {"reaction_created", "reaction_removed"} -> "ReactionEvent"
      [] t \in {"request_created", "request_edited", "request_canceled",
                "request_expired"} -> "RequestEvent"
      [] t \in {"quote_created", "quote_edited", "quote_canceled",
                "quote_expired"} -> "QuoteEvent"
      [] t = "subscribe" -> "CryptoPriceSubscribeEvent"
      [] t = "update" -> "CryptoPriceUpdateEvent"
      [] t = "agg_orderbook" -> "LiveDataOrderBookSummaryEvent"
      [] t = "price_change" -> "LiveDataPriceChangeEvent"
      [] t = "last_trade_price" -> "LiveDataLastTradePriceEvent"
      [] t = "tick_size_change" -> "LiveDataTickSizeChangeEvent"
      [] t \in {"market_created", "market_resolved"} ->
             "MarketStatusChangeEvent"
      [] t = "order" -> "LiveDataOrderEvent"
      [] t = "trade" -> "LiveDataTradeEvent"
      [] OTHER -> "none"

\* variant of _process_live_data_event whose cases match on the topic too:
\* a message with another topic than its model's falls to case _
_process_live_data_eventByTopic(event) ==
    LET message == event.json
        byType == LiveDataModelFor(message.ty)
        cls == IF byType # "none" /\ message.topic \in EventModels[byType].topics
               THEN byType ELSE "none"
    IN  IF SubscriptExc(message, message.ty) # "none"
        THEN Raises(<<>>, SubscriptExc(message, message.ty))
        ELSE IF cls = "none" THEN Returns(<<PrintMessage(message)>>)
        ELSE IF Validates(cls, message)
             THEN Returns(<<PrintModel(cls, message)>>)
        ELSE Returns(<<PrintErrors(cls, message), PrintText(event)>>)

_process_live_data_event(event) ==
    LET message == event.json
        cls == LiveDataModelFor(message.ty)
    IN  IF SubscriptExc(message, message.ty) # "none"
        THEN Raises(<<>>, SubscriptExc(message, message.ty))
        ELSE IF cls = "none" THEN Returns(<<PrintMessage(message)>>)
        ELSE IF Validates(cls, message)
             THEN Returns(<<PrintModel(cls, message)>>)
        \* except ValidationError
        ELSE Returns(<<PrintErrors(cls, message), PrintText(event)>>)

\* the default value of process_event of each socket coroutine
DefaultProcessEvent(c, event) ==
    CASE c = "market" -> _process_market_event(event)
      [] c = "user" -> _process_user_event(event)
      [] c = "live_data" -> _process_live_data_event(event)

----------------------------------------------------------------------------
(* DecodeSpec: a default event processor is called once on a parsed frame. *)
MarketTypes == {"book", "price_change", "tick_size_change", "last_trade_price"}
UserTypes == {"order", "trade"}
LiveDataTypes ==
    {"trades", "orders_matched", "comment_created", "comment_removed",
     "reaction_created", "reaction_removed", "request_created",
     "request_edited", "request_canceled", "request_expired", "quote_created",
     "quote_edited", "quote_canceled", "quote_expired", "subscribe", "update",
     "agg_orderbook", "price_change", "last_trade_price", "tick_size_change",
     "market_created", "market_resolved", "order", "trade"}
Topics == {"activity", "comments", "rfq", "crypto_prices",
           "crypto_prices_chainlink", "clob_market", "clob_user"}
Schemas == {EventModels[cls].schema : cls \in DOMAIN EventModels}

\* discriminant values no processor has a case for
UnknownTypes == {"best_bid_ask", "new_kind"}

\* the elements array frames are made of
ItemValues ==
    {Obj("book", NoVal, NoVal, "OrderBookSummary"),
     Obj("book", NoVal, NoVal, "none"),
     Obj(NoVal, NoVal, NoVal, "OrderBookSummary"),
     Obj("price_change", NoVal, NoVal, "PriceChanges"),
     Scalar}

RECURSIVE SeqsUpTo(_, _)
SeqsUpTo(S, n) ==
    IF n = 0 THEN {<<>>}
    ELSE LET shorter == SeqsUpTo(S, n - 1)
         IN  shorter \cup {Append(q, x) : q \in shorter, x \in S}

ArrayFrames == {Arr(items) : items \in SeqsUpTo(ItemValues, MaxItems)}

MarketFrames ==
    {Obj(et, NoVal, NoVal, sh) :
        et \in MarketTypes \cup UserTypes \cup UnknownTypes \cup {NoVal},
        sh \in {"OrderBookSummary", "PriceChanges", "TickSizeChange",
                "LastTradePrice", "none"}}
    \cup ArrayFrames \cup {Scalar}

UserFrames ==
    {Obj(et, ty, NoVal, sh) :
        et \in UserTypes \cup MarketTypes \cup UnknownTypes \cup {NoVal},
        ty \in {"PLACEMENT", "TRADE", NoVal},
        sh \in {"OrderEvent", "TradeEvent", "none"}}
    \cup {Arr(<<>>), Arr(<<Obj("order", NoVal, NoVal, "OrderEvent")>>), Scalar}

LiveDataFrames ==
    {Obj(NoVal, ty, topic, sh) :
        ty \in LiveDataTypes \cup UnknownTypes \cup {NoVal},
        topic \in Topics \cup {"new_topic", NoVal},
        sh \in Schemas \cup {"none"}}
    \cup {Arr(<<>>), Scalar}

FramesOf(c) ==
    CASE c = "market" -> MarketFrames
      [] c = "user" -> UserFrames
      [] c = "live_data" -> LiveDataFrames

NoResult == Returns(<<>>)

DecodeMarket ==
    /\ dpc = "ready" /\ dchan = "market"
    /\ dres' = _process_market_event(EventWrapper(dframe))
    /\ dpc' = "done"
    /\ UNCHANGED <<dchan, dframe, supVars, hashVars, numVars>>

DecodeUser ==
    /\ dpc = "ready" /\ dchan = "user"
    /\ dres' = _process_user_event(EventWrapper(dframe))
    /\ dpc' = "done"
    /\ UNCHANGED <<dchan, dframe, supVars, hashVars, numVars>>

DecodeLiveData ==
    /\ dpc = "ready" /\ dchan = "live_data"
    /\ dres' = _process_live_data_event(EventWrapper(dframe))
    /\ dpc' = "done"
    /\ UNCHANGED <<dchan, dframe, supVars, hashVars, numVars>>

DecodeNext == DecodeMarket \/ DecodeUser \/ DecodeLiveData

----------------------------------------------------------------------------
(* The socket coroutines market_socket, user_socket and live_data_socket.  *)
(* pc: "idle" (not called), "called", "connecting" (at websockets.connect),*)
(* "handshaking" (socket open, at websocket.send), "listening" (at the     *)
(* async for), "handling" (awaiting process_event), "sleeping" (in         *)
(* asyncio.sleep), "raised" (AuthenticationRequiredError left the          *)
(* coroutine), "cancelled" (CancelledError left the coroutine).            *)
RECONNECT_DELAY == 1

Running == {"connecting", "handshaking", "listening", "handling", "sleeping"}

\* a message as the socket delivers it: text that json.loads accepts
\* (valid) with the value it parses to, or text it rejects
Msg(valid, data) == [valid |-> valid, data |-> data]

SampleMessages(c) ==
    {Msg(FALSE, NoData), Msg(TRUE, Scalar)} \cup
    CASE c = "market" ->
            {Msg(TRUE, Obj("book", NoVal, NoVal, "OrderBookSummary")),
             Msg(TRUE, Obj(NoVal, NoVal, NoVal, "OrderBookSummary")),
             Msg(TRUE, Arr(<<Obj("book", NoVal, NoVal, "none")>>))}
      [] c = "user" ->
            {Msg(TRUE, Obj("order", "PLACEMENT", NoVal, "OrderEvent")),
             Msg(TRUE, Obj(NoVal, "PLACEMENT", NoVal, "OrderEvent")),
             Msg(TRUE, Obj("new_kind", NoVal, NoVal, "none"))}
      [] c = "live_data" ->
            {Msg(TRUE, Obj(NoVal, "trades", "activity", "ActivityTrade")),
             Msg(TRUE, Obj(NoVal, NoVal, "activity", "ActivityTrade")),
             Msg(TRUE, Obj(NoVal, "new_kind", "activity", "none"))}

\* subscription entries: the topic key (NoVal: no such key) and the
\* clob_auth key
Sub(topic, auth) == [topic |-> topic, clob_auth |-> auth]
SubEntries == {Sub(t, NoVal) : t \in {"clob_user", "activity", NoVal}}

\* creds.model_dump()
ModelDump(c) == "model_dump:" \o c

\* creds.model_dump(by_alias=True)
ModelDumpByAlias(c) == "model_dump_by_alias:" \o c

\* token_ids argument of market_socket
TokenIds == <<"token_1", "token_2">>

\* an outbound frame: the text json.dumps makes of a dict with these keys
\* (NoVal, <<>>: the dict has no such key)
Frame(keys, assets_ids, custom_feature_enabled, auth, action, subscriptions) ==
    [keys |-> keys, assets_ids |-> assets_ids,
     custom_feature_enabled |-> custom_feature_enabled, auth |-> auth,
     action |-> action, subscriptions |-> subscriptions]

\* nothing sent yet
NoFrame == Frame({}, <<>>, FALSE, NoVal, NoVal, <<>>)

\* variant of NeedsAuth that looks at the first subscription only
NeedsAuthFirstOnly(subscriptions) ==
    Len(subscriptions) > 0 /\ subscriptions[1].topic = "clob_user"

\* needs_auth = any(sub.get("topic") == "clob_user" for sub in subscriptions)
NeedsAuth(subscriptions) ==
    \E i \in 1..Len(subscriptions) : subscriptions[i].topic = "clob_user"

\* variant of SubscriptionsWithCreds that adds the credentials to every
\* subscription
SubscriptionsWithCredsEvery(subscriptions, cr) ==
    [i \in 1..Len(subscriptions) |->
        [subscriptions[i] EXCEPT !.clob_auth = ModelDump(cr)]]

\* the for loop building subscriptions_with_creds
SubscriptionsWithCreds(subscriptions, cr) ==
    [i \in 1..Len(subscriptions) |->
        IF subscriptions[i].topic = "clob_user"
        THEN [subscriptions[i] EXCEPT !.clob_auth = ModelDump(cr)]
        ELSE subscriptions[i]]

\* variant of SubCopy without the copy: sub_copy = sub
SubAlias(i) == [owner |-> "caller", index |-> i]

\* sub_copy = sub.copy(): a new dict, which the caller's list does not hold
SubCopy(i) == [owner |-> "live_data_socket", index |-> i]

\* the dicts of the caller's list after the for loop: the loop assigns
\* sub_copy["clob_auth"], which shows in the caller's i-th dict when
\* sub_copy is that dict
CallerEntriesAfter(subscriptions, cr) ==
    [i \in 1..Len(subscriptions) |->
        IF subscriptions[i].topic = "clob_user" /\ SubCopy(i).owner = "caller"
        THEN [subscriptions[i] EXCEPT !.clob_auth = ModelDump(cr)]
        ELSE subscriptions[i]]

\* market_socket / user_socket called: control reaches the while loop
CallSocket(c) ==
    /\ c \in {"market", "user"}
    /\ pc[c] = "called"
    /\ pc' = [pc EXCEPT ![c] = "connecting"]
    /\ UNCHANGED <<wire, first, done, curSeq>>
    /\ UNCHANGED <<handler, subs, creds, flag, payload, attempts, sent, cur, calls,
                   parsed, decodeErrs, procErrs, hexc, slept, faults,
                   delivered, closes, pureVars>>

\* live_data_socket called: the code before its while loop
LiveDataSetup ==
    /\ pc["live_data"] = "called"
    /\ IF NeedsAuth(subs)
       THEN IF creds = "none"
            THEN /\ pc' = [pc EXCEPT !["live_data"] = "raised"]
                 /\ UNCHANGED <<payload, subs>>
            ELSE /\ payload' = SubscriptionsWithCreds(subs, creds)
                 /\ subs' = CallerEntriesAfter(subs, creds)
                 /\ pc' = [pc EXCEPT !["live_data"] = "connecting"]
       ELSE /\ payload' = subs
            /\ pc' = [pc EXCEPT !["live_data"] = "connecting"]
            /\ UNCHANGED subs
    /\ UNCHANGED <<wire, first, done, curSeq>>
    /\ UNCHANGED <<handler, creds, flag, attempts, sent, cur, calls, parsed,
                   decodeErrs, procErrs, hexc, slept, faults, delivered,
                   closes, pureVars>>

\* variant of ExceptReconnect in which the exception leaves the coroutine
ExceptPropagates(c) ==
    /\ pc' = [pc EXCEPT ![c] = "raised"]
    /\ UNCHANGED slept

\* except Exception as e: print(...); await asyncio.sleep(1)
ExceptReconnect(c) ==
    /\ pc' = [pc EXCEPT ![c] = "sleeping"]
    /\ slept' = [slept EXCEPT ![c] = RECONNECT_DELAY]

\* the environment makes a transport operation fail
Fault(c) ==
    /\ faults[c] < MaxFaults
    /\ faults' = [faults EXCEPT ![c] = @ + 1]

\* websockets.connect(url): the socket opens, or the attempt raises
Connect(c) ==
    /\ pc[c] = "connecting"
    /\ attempts' = [attempts EXCEPT ![c] = @ + 1]
    /\ \/ /\ pc' = [pc EXCEPT ![c] = "handshaking"]
          /\ sent' = [sent EXCEPT ![c] = 0]
          /\ UNCHANGED <<slept, faults>>
       \/ /\ Fault(c)
          /\ ExceptReconnect(c)
          /\ UNCHANGED sent
    /\ UNCHANGED <<wire, first, done, curSeq>>
    /\ UNCHANGED <<handler, subs, creds, flag, payload, cur, calls, parsed,
                   decodeErrs, procErrs, hexc, delivered, closes, pureVars>>

\* variant of Handshake that asks the server to resume after the messages
\* already received on the market channel
HandshakeWithResume(c) ==
    CASE c = "market" ->
            Frame({"assets_ids", "custom_feature_enabled", "resume"},
                  SubSeq(TokenIds, 1, 2 - parsed[c]), flag, NoVal, NoVal, <<>>)
      [] c = "user" ->
            Frame({"auth"}, <<>>, FALSE, ModelDumpByAlias(creds), NoVal, <<>>)
      [] c = "live_data" ->
            Frame({"action", "subscriptions"}, <<>>, FALSE, NoVal, "subscribe",
                  payload)

\* the frame each coroutine sends when the socket has opened
Handshake(c) ==
    CASE c = "market" ->
            Frame({"assets_ids", "custom_feature_enabled"}, TokenIds, flag,
                  NoVal, NoVal, <<>>)
      [] c = "user" ->
            Frame({"auth"}, <<>>, FALSE, ModelDumpByAlias(creds), NoVal, <<>>)
      [] c = "live_data" ->
            Frame({"action", "subscriptions"}, <<>>, FALSE, NoVal, "subscribe",
                  payload)

\* await websocket.send(json.dumps(...)): sent, or the send raises
SendHandshake(c) ==
    /\ pc[c] = "handshaking"
    /\ \/ /\ sent' = [sent EXCEPT ![c] = @ + 1]
          /\ wire' = [wire EXCEPT ![c] = Handshake(c)]
          /\ first' = [first EXCEPT ![c] =
                          IF sent[c] = 0 /\ @ = NoFrame THEN Handshake(c) ELSE @]
          /\ pc' = [pc EXCEPT ![c] = "listening"]
          /\ UNCHANGED <<slept, faults>>
       \/ /\ Fault(c)
          /\ ExceptReconnect(c)
          /\ UNCHANGED <<sent, wire, first>>
    /\ UNCHANGED <<done, curSeq>>
    /\ UNCHANGED <<handler, subs, creds, flag, payload, attempts, cur, calls,
                   parsed, decodeErrs, procErrs, hexc, delivered, closes, pureVars>>

\* variant of DecodeFailed in which the handler is called all the same
DecodeFailedCallsHandler(c) ==
    /\ decodeErrs' = [decodeErrs EXCEPT ![c] = @ + 1]
    /\ calls' = [calls EXCEPT ![c] = @ + 1]
    /\ cur' = [cur EXCEPT ![c] = Scalar]
    /\ pc' = [pc EXCEPT ![c] = "handling"]
    /\ UNCHANGED <<parsed, curSeq>>

\* except JSONDecodeError: print(f"Failed to decode message: {message}");
\* process_event is not called and the async for goes on
DecodeFailed(c) ==
    /\ decodeErrs' = [decodeErrs EXCEPT ![c] = @ + 1]
    /\ UNCHANGED <<parsed, calls, cur, curSeq, pc>>

\* variant of Dispatch in which process_event is invoked a second time
\* with the same event
DispatchTwice(c, message) ==
    /\ parsed' = [parsed EXCEPT ![c] = @ + 1]
    /\ calls' = [calls EXCEPT ![c] = @ + 2]
    /\ cur' = [cur EXCEPT ![c] = message.data]
    /\ curSeq' = [curSeq EXCEPT ![c] = delivered[c] + 1]
    /\ pc' = [pc EXCEPT ![c] = "handling"]
    /\ UNCHANGED decodeErrs

\* data = json.loads(message) returned: process_event(EventWrapper(data))
\* is invoked, once, and awaited
Dispatch(c, message) ==
    /\ parsed' = [parsed EXCEPT ![c] = @ + 1]
    /\ calls' = [calls EXCEPT ![c] = @ + 1]
    /\ cur' = [cur EXCEPT ![c] = message.data]
    /\ curSeq' = [curSeq EXCEPT ![c] = delivered[c] + 1]
    /\ pc' = [pc EXCEPT ![c] = "handling"]
    /\ UNCHANGED decodeErrs

\* variant of ReceiveReady in which process_event is started without
\* being awaited, so that the next message is taken while it runs
ReceiveReadyWhileHandling(c) == pc[c] \in {"listening", "handling"}

\* the async for takes the next message only when the loop body, with its
\* await of process_event, has ended
ReceiveReady(c) == pc[c] = "listening"

\* one iteration of the async for up to the await of process_event:
\* data = json.loads(message), then process_event(EventWrapper(data)) is
\* called, or json.loads raises
Receive(c) ==
    /\ ReceiveReady(c)
    /\ delivered[c] < MaxDelivered
    /\ delivered' = [delivered EXCEPT ![c] = @ + 1]
    /\ \E message \in SampleMessages(c) :
          IF message.valid
          THEN Dispatch(c, message)
          ELSE DecodeFailed(c)
    /\ UNCHANGED <<wire, first, done>>
    /\ UNCHANGED <<handler, subs, creds, flag, payload, attempts, sent, procErrs,
                   hexc, slept, faults, closes, pureVars>>

\* the exceptions (subclasses of Exception) the process_event call in
\* progress can end with; "none": it returns
HandlerOutcomes(c) ==
    IF handler[c] = "default"
    THEN {DefaultProcessEvent(c, EventWrapper(cur[c])).exc}
    ELSE {"none", "Exception"}

\* variant of ProcessingFailed in which the exception reaches the outer
\* except clause and ends the connection
ProcessingFailedEndsConnection(c) ==
    /\ pc' = [pc EXCEPT ![c] = "sleeping"]
    /\ UNCHANGED procErrs

\* except Exception as e: print(f"Error processing message: {e}"); the
\* async for goes on
ProcessingFailed(c) ==
    /\ procErrs' = [procErrs EXCEPT ![c] = @ + 1]
    /\ pc' = [pc EXCEPT ![c] = "listening"]

\* the await of process_event ends: it returns or it raises
HandlerDone(c) ==
    /\ pc[c] = "handling"
    /\ \E exc \in HandlerOutcomes(c) :
          /\ hexc' = [hexc EXCEPT ![c] = exc]
          /\ IF exc = "none"
             THEN /\ pc' = [pc EXCEPT ![c] = "listening"]
                  /\ UNCHANGED procErrs
             ELSE ProcessingFailed(c)
    /\ cur' = [cur EXCEPT ![c] = NoData]
    /\ done' = [done EXCEPT ![c] = @ + 1]
    /\ UNCHANGED <<wire, first, curSeq>>
    /\ UNCHANGED <<handler, subs, creds, flag, payload, attempts, sent, calls,
                   parsed, decodeErrs, slept, faults, delivered, closes,
                   pureVars>>

\* the async for raises ConnectionClosedError (read failure, abnormal
\* close): the outer except Exception catches it
ReadError(c) ==
    /\ pc[c] = "listening"
    /\ Fault(c)
    /\ ExceptReconnect(c)
    /\ UNCHANGED <<wire, first, done, curSeq>>
    /\ UNCHANGED <<handler, subs, creds, flag, payload, attempts, sent, cur, calls,
                   parsed, decodeErrs, procErrs, hexc, delivered, closes, pureVars>>

\* the connection is closed normally (close code 1000 or 1001): the async
\* for ends without an exception, the async with block is left and the
\* while loop starts over
ClosedOK(c) ==
    /\ pc[c] = "listening"
    /\ closes[c] < MaxCloses
    /\ closes' = [closes EXCEPT ![c] = @ + 1]
    /\ pc' = [pc EXCEPT ![c] = "connecting"]
    /\ UNCHANGED <<wire, first, done, curSeq>>
    /\ UNCHANGED <<handler, subs, creds, flag, payload, attempts, sent, cur, calls,
                   parsed, decodeErrs, procErrs, hexc, slept, faults,
                   delivered, pureVars>>

\* asyncio.sleep(1) returns: next iteration of the while loop
Sleep(c) ==
    /\ pc[c] = "sleeping"
    /\ pc' = [pc EXCEPT ![c] = "connecting"]
    /\ UNCHANGED <<wire, first, done, curSeq>>
    /\ UNCHANGED <<handler, subs, creds, flag, payload, attempts, sent, cur, calls,
                   parsed, decodeErrs, procErrs, hexc, slept, faults,
                   delivered, closes, pureVars>>

\* the task is cancelled from outside: CancelledError is raised at the
\* await in progress and no except Exception clause catches it
Cancel(c) ==
    /\ pc[c] \in Running
    /\ pc' = [pc EXCEPT ![c] = "cancelled"]
    /\ UNCHANGED <<wire, first, done, curSeq>>
    /\ UNCHANGED <<handler, subs, creds, flag, payload, attempts, sent, cur, calls,
                   parsed, decodeErrs, procErrs, hexc, slept, faults,
                   delivered, closes, pureVars>>

----------------------------------------------------------------------------
(* Specifications *)
Zero == [c \in Channels |-> 0]

\* no coroutine has been called
SupIdle ==
    /\ pc = [c \in Channels |-> "idle"]
    /\ handler = [c \in Channels |-> "default"]
    /\ subs = <<>> /\ creds = "none" /\ flag = FALSE /\ payload = <<>>
    /\ wire = [c \in Channels |-> NoFrame]
    /\ first = [c \in Channels |-> NoFrame]
    /\ done = Zero /\ curSeq = Zero
    /\ attempts = Zero /\ sent = Zero /\ calls = Zero /\ parsed = Zero
    /\ decodeErrs = Zero /\ procErrs = Zero /\ slept = Zero
    /\ faults = Zero /\ closes = Zero /\ delivered = Zero
    /\ cur = [c \in Channels |-> NoData]
    /\ hexc = [c \in Channels |-> "none"]

\* no processor run is modelled
----------------------------------------------------------------------------
(* generate_orderbook_summary_hash, run by threads.  A thread switch can   *)
(* happen between any two statements of the function, so each statement is *)
(* one step.                                                               *)
Threads == {"thread_1", "thread_2"}
Snapshots == {"book_1", "book_2"}
ServerHashes == {"hash_a", "hash_b"}
Bodies == {"bids_asks_1", "bids_asks_2"}

\* an OrderBookSummary: its hash field, its other fields taken together,
\* and whether model_dump_json can serialize them
Snapshot(hash, body, serializable) ==
    [hash |-> hash, body |-> body, serializable |-> serializable]

SnapshotValues ==
    {Snapshot(h, b, z) : h \in ServerHashes, b \in Bodies, z \in BOOLEAN}

\* a local variable not assigned yet
Unbound == "<unbound>"

\* orderbook.model_dump_json(by_alias=True): the JSON text, which shows
\* every field with its current value
ModelDumpJson(o) == [hash |-> o.hash, body |-> o.body]

\* hashlib.sha1(text.encode("utf-8")).hexdigest(), taken as collision-free
Sha1Hex(text) == [sha1 |-> text]

\* variant of HashCleared that leaves the hash field as it is
HashKept(o) == o

\* orderbook.hash = ""
HashCleared(o) == [o EXCEPT !.hash = ""]

\* variant of HashRestored that leaves the hash field empty
HashLeftEmpty(o, h) == o

\* orderbook.hash = server_hash
HashRestored(o, h) == [o EXCEPT !.hash = h]

otherThanHash == <<supVars, decVars, numVars>>

\* the call begins; server_hash = orderbook.hash
ReadServerHash(t) ==
    /\ hpc[t] \in {"start", "returned", "raised"}
    /\ hcalls[t] < MaxHashCalls
    /\ hcalls' = [hcalls EXCEPT ![t] = @ + 1]
    /\ atEntry' = [atEntry EXCEPT ![t] = orderbook[arg[t]]]
    /\ server_hash' = [server_hash EXCEPT ![t] = orderbook[arg[t]].hash]
    /\ computed_hash' = [computed_hash EXCEPT ![t] = Sha1Hex(Unbound)]
    /\ hpc' = [hpc EXCEPT ![t] = "clear"]
    /\ UNCHANGED <<orderbook, constructed, arg, rets, otherThanHash>>

\* orderbook.hash = ""
ClearHash(t) ==
    /\ hpc[t] = "clear"
    /\ orderbook' = [orderbook EXCEPT ![arg[t]] = HashCleared(@)]
    /\ hpc' = [hpc EXCEPT ![t] = "compute"]
    /\ UNCHANGED <<constructed, arg, atEntry, server_hash, computed_hash,
                   hcalls, rets, otherThanHash>>

\* computed_hash = hashlib.sha1(str(orderbook.model_dump_json(...))...)
\* .hexdigest(), or model_dump_json raises and the exception leaves the
\* function
ComputeHash(t) ==
    /\ hpc[t] = "compute"
    /\ IF orderbook[arg[t]].serializable
       THEN /\ computed_hash' = [computed_hash EXCEPT ![t] =
                                    Sha1Hex(ModelDumpJson(orderbook[arg[t]]))]
            /\ hpc' = [hpc EXCEPT ![t] = "restore"]
       ELSE /\ hpc' = [hpc EXCEPT ![t] = "raised"]
            /\ UNCHANGED computed_hash
    /\ UNCHANGED <<orderbook, constructed, arg, atEntry, server_hash, hcalls,
                   rets, otherThanHash>>

\* orderbook.hash = server_hash
RestoreHash(t) ==
    /\ hpc[t] = "restore"
    /\ orderbook' = [orderbook EXCEPT ![arg[t]] =
                        HashRestored(@, server_hash[t])]
    /\ hpc' = [hpc EXCEPT ![t] = "return"]
    /\ UNCHANGED <<constructed, arg, atEntry, server_hash, computed_hash,
                   hcalls, rets, otherThanHash>>

\* return computed_hash
ReturnHash(t) ==
    /\ hpc[t] = "return"
    /\ rets' = [rets EXCEPT ![t] = Append(@, computed_hash[t])]
    /\ hpc' = [hpc EXCEPT ![t] = "returned"]
    /\ UNCHANGED <<orderbook, constructed, arg, atEntry, server_hash,
                   computed_hash, hcalls, otherThanHash>>

HashNext ==
    \/ \E t \in Threads : ReadServerHash(t)
    \/ \E t \in Threads : ClearHash(t)
    \/ \E t \in Threads : ComputeHash(t)
    \/ \E t \in Threads : RestoreHash(t)
    \/ \E t \in Threads : ReturnHash(t)

\* the threads' locals and counters before any call
HashLocalsInit ==
    /\ atEntry = [t \in Threads |-> orderbook[arg[t]]]
    /\ hpc = [t \in Threads |-> "start"]
    /\ server_hash = [t \in Threads |-> Unbound]
    /\ computed_hash = [t \in Threads |-> Sha1Hex(Unbound)]
    /\ hcalls = [t \in Threads |-> 0]
    /\ rets = [t \in Threads |-> <<>>]

\* no thread calls the function
HashIdle ==
    /\ orderbook = [s \in Snapshots |-> Snapshot("hash_a", "bids_asks_1", TRUE)]
    /\ constructed = orderbook
    /\ arg = [t \in Threads |-> "book_1"]
    /\ HashLocalsInit

----------------------------------------------------------------------------
(* The numeric helpers of utilities/order_builder/helpers.py.  A Decimal   *)
(* is a sign, a coefficient and an exponent (value = coef * 10^exp), or a  *)
(* NaN or an infinity; arithmetic runs in the default decimal context.     *)
\* precision of the default decimal context
PREC == 28

Dec(sign, coef, exp) ==
    [kind |-> "finite", sign |-> sign, coef |-> coef, exp |-> exp]
NaN == [kind |-> "NaN", sign |-> 0, coef |-> 0, exp |-> 0]
Inf(sign) == [kind |-> "Infinity", sign |-> sign, coef |-> 0, exp |-> 0]

RECURSIVE Pow10(_)
Pow10(n) == IF n <= 0 THEN 1 ELSE 10 * Pow10(n - 1)

\* number of digits of a coefficient
RECURSIVE Digits(_)
Digits(n) == IF n < 10 THEN 1 ELSE 1 + Digits(n \div 10)

\* str(x): the scientific string of a Decimal, as its parts
Str(x) ==
    [text |-> IF x.kind = "finite" THEN "digits" ELSE x.kind,
     minus |-> x.sign = 1, digits |-> x.coef, e |-> x.exp]

\* Decimal(s) for the text of a Decimal: exact, no rounding to the context
DecimalOf(s) ==
    IF s.text = "digits"
    THEN Dec(IF s.minus THEN 1 ELSE 0, s.digits, s.e)
    ELSE [kind |-> s.text, sign |-> IF s.minus THEN 1 ELSE 0,
          coef |-> 0, exp |-> 0]

\* the result of a helper call: st is "pending", "returned" or "raised"
Pending == [st |-> "pending", exc |-> "none", dec |-> NaN, num |-> 0,
            bool |-> FALSE]
ReturnedDec(d) == [Pending EXCEPT !.st = "returned", !.dec = d]
ReturnedInt(n) == [Pending EXCEPT !.st = "returned", !.num = n]
ReturnedBool(b) == [Pending EXCEPT !.st = "returned", !.bool = b]
Raised(exc) == [Pending EXCEPT !.st = "raised", !.exc = exc]

\* Decimal(1).scaleb(-sig_digits)
Scaleb(x, n) == [x EXCEPT !.exp = @ + n]

\* x.quantize(exp=e, rounding=rounding) for a finite e: the value of x
\* with the exponent of e, rounded; InvalidOperation when x is infinite
\* or the result would have more than PREC digits
Quantize(x, e, rounding) ==
    CASE x.kind = "NaN" -> ReturnedDec(x)
      [] x.kind = "Infinity" -> Raised("InvalidOperation")
      [] x.kind = "finite" ->
         IF x.coef = 0
         THEN ReturnedDec(Dec(x.sign, 0, e.exp))
         ELSE IF Digits(x.coef) + x.exp - e.exp > PREC
         THEN Raised("InvalidOperation")
         ELSE IF x.exp >= e.exp
         THEN ReturnedDec(Dec(x.sign, x.coef * Pow10(x.exp - e.exp), e.exp))
         ELSE LET p == Pow10(e.exp - x.exp)
                  quo == x.coef \div p
                  rem == x.coef % p
                  away == CASE rounding = "ROUND_FLOOR" ->
                                 x.sign = 1 /\ rem # 0
                            [] rounding = "ROUND_CEILING" ->
                                 x.sign = 0 /\ rem # 0
                            [] rounding = "ROUND_HALF_UP" -> 2 * rem >= p
                  c == IF away THEN quo + 1 ELSE quo
              IN  IF Digits(c) > PREC
                  THEN Raised("InvalidOperation")
                  ELSE ReturnedDec(Dec(x.sign, c, e.exp))

\* variant of round_down that passes the rounding of round_normal
round_downHalfUp(x, sig_digits) ==
    Quantize(DecimalOf(Str(x)), Scaleb(Dec(0, 1, 0), -sig_digits),
             "ROUND_HALF_UP")

round_down(x, sig_digits) ==
    Quantize(DecimalOf(Str(x)), Scaleb(Dec(0, 1, 0), -sig_digits),
             "ROUND_FLOOR")

round_normal(x, sig_digits) ==
    Quantize(DecimalOf(Str(x)), Scaleb(Dec(0, 1, 0), -sig_digits),
             "ROUND_HALF_UP")

round_up(x, sig_digits) ==
    Quantize(DecimalOf(Str(x)), Scaleb(Dec(0, 1, 0), -sig_digits),
             "ROUND_CEILING")

\* x.as_tuple().exponent: an int, or the letter 'n' or 'F' of a NaN or an
\* infinity
AsTupleExponent(x) ==
    CASE x.kind = "finite" -> [isint |-> TRUE, int |-> x.exp, letter |-> ""]
      [] x.kind = "NaN" -> [isint |-> FALSE, int |-> 0, letter |-> "n"]
      [] x.kind = "Infinity" -> [isint |-> FALSE, int |-> 0, letter |-> "F"]

\* variant of decimal_places without the max(0, ...)
decimal_placesUnclamped(x) ==
    LET exponent == AsTupleExponent(DecimalOf(Str(x)))
    IN  IF ~exponent.isint
        THEN Raised("TypeError")
        ELSE ReturnedInt(-exponent.int)

decimal_places(x) ==
    LET exponent == AsTupleExponent(DecimalOf(Str(x)))
    IN  IF ~exponent.isint
        THEN Raised("TypeError")
        ELSE ReturnedInt(IF -exponent.int > 0 THEN -exponent.int ELSE 0)

\* the TickSize literals
TickSizes == {"0.1", "0.01", "0.001", "0.0001"}

\* Decimal(tick_size)
DecimalOfTick(tick_size) ==
    CASE tick_size = "0.1" -> Dec(0, 1, -1)
      [] tick_size = "0.01" -> Dec(0, 1, -2)
      [] tick_size = "0.001" -> Dec(0, 1, -3)
      [] tick_size = "0.0001" -> Dec(0, 1, -4)

\* 1 - b for 0 < b < 1: exact in the default context
OneMinus(b) == Dec(0, Pow10(-b.exp) - b.coef, b.exp)

\* the signed coefficient of a finite Decimal at exponent m (m <= x.exp)
Scaled(x, m) ==
    (IF x.sign = 1 THEN -1 ELSE 1) * x.coef * Pow10(x.exp - m)

\* a <= b on Decimals: a NaN operand signals InvalidOperation
DecLe(a, b) ==
    CASE a.kind = "NaN" \/ b.kind = "NaN" -> Raised("InvalidOperation")
      [] a.kind = "Infinity" /\ b.kind # "NaN" ->
            ReturnedBool(a.sign = 1 \/ (b.kind = "Infinity" /\ b.sign = 0))
      [] a.kind = "finite" /\ b.kind = "Infinity" -> ReturnedBool(b.sign = 0)
      [] a.kind = "finite" /\ b.kind = "finite" ->
            LET m == IF a.exp < b.exp THEN a.exp ELSE b.exp
            IN  ReturnedBool(Scaled(a, m) <= Scaled(b, m))

\* variant of price_valid with exclusive bounds
price_validExclusive(price, tick_size) ==
    LET low == DecLe(price, DecimalOfTick(tick_size))
        high == DecLe(OneMinus(DecimalOfTick(tick_size)), price)
    IN  IF low.st = "raised" THEN low
        ELSE IF low.bool THEN ReturnedBool(FALSE)
        ELSE IF high.st = "raised" THEN high
        ELSE ReturnedBool(~high.bool)

\* Decimal(tick_size) <= price <= 1 - Decimal(tick_size): the second
\* comparison is made only when the first is true
price_valid(price, tick_size) ==
    LET low == DecLe(DecimalOfTick(tick_size), price)
    IN  IF low.st = "raised" \/ ~low.bool THEN low
        ELSE DecLe(price, OneMinus(DecimalOfTick(tick_size)))

\* the arguments the helpers are called with
Helpers ==
    {"round_down", "round_normal", "round_up", "decimal_places", "price_valid"}
SigDigits == 0..MaxSigDigits
RoundInputs ==
    {Dec(0, c, e) : c \in 0..MaxCoef, e \in (-MaxFrac)..MaxPosExp}
      \cup {Dec(0, c, PREC) : c \in 0..2}
PlacesInputs ==
    {Dec(g, c, e) : g \in {0, 1}, c \in {0, 1, 25, MaxCoef},
                    e \in (-MaxFrac)..MaxPosExp}
      \cup {NaN, Inf(0), Inf(1)}
\* prices on a coarse grid and next to each bound of each tick size
PriceInputs ==
    {Dec(g, c, e) : g \in {0, 1}, c \in 0..12, e \in (-MaxFrac)..MaxPosExp}
      \cup UNION {{Dec(0, c, -k) : c \in (Pow10(k) - 2)..Pow10(k)} :
                    k \in 1..4}
      \cup UNION {{Dec(0, c, -(k + 1)) :
                       c \in (Pow10(k + 1) - 11)..(Pow10(k + 1) - 9)} :
                    k \in 1..4}
      \cup {NaN, Inf(0), Inf(1)}

CallHelper(group, f, result) ==
    /\ ngroup = group
    /\ nres[f].st = "pending"
    /\ nres' = [nres EXCEPT ![f] = result]
    /\ UNCHANGED <<ngroup, nx, nsig, ntick, supVars, decVars, hashVars>>

CallRoundDown == CallHelper("round", "round_down", round_down(nx, nsig))
CallRoundNormal == CallHelper("round", "round_normal", round_normal(nx, nsig))
CallRoundUp == CallHelper("round", "round_up", round_up(nx, nsig))
CallDecimalPlaces ==
    CallHelper("places", "decimal_places", decimal_places(nx))
CallPriceValid ==
    CallHelper("price", "price_valid", price_valid(nx, ntick))

NumNext ==
    \/ CallRoundDown
    \/ CallRoundNormal
    \/ CallRoundUp
    \/ CallDecimalPlaces
    \/ CallPriceValid

\* no helper is called
NumIdle ==
    /\ ngroup = "none" /\ nx = NaN /\ nsig = 0 /\ ntick = "0.1"
    /\ nres = [f \in Helpers |-> Pending]

DecIdle ==
    /\ dchan = "market" /\ dframe = NoData /\ dres = NoResult /\ dpc = "idle"

\* the caller calls one of the three coroutines of a new client
Init ==
    /\ \E c \in Channels, h \in {"default", "custom"} :
          /\ pc = [x \in Channels |-> IF x = c THEN "called" ELSE "idle"]
          /\ handler = [x \in Channels |-> IF x = c THEN h ELSE "default"]
          /\ IF c = "live_data"
             THEN /\ subs \in SeqsUpTo(SubEntries, MaxSubs)
                  /\ creds \in {"none", "creds"}
             ELSE /\ subs = <<>>
                  /\ creds = IF c = "user" THEN "creds" ELSE "none"
          /\ flag \in IF c = "market" THEN BOOLEAN ELSE {FALSE}
    /\ payload = <<>>
    /\ wire = [c \in Channels |-> NoFrame]
    /\ first = [c \in Channels |-> NoFrame]
    /\ done = Zero /\ curSeq = Zero
    /\ attempts = Zero /\ sent = Zero /\ calls = Zero /\ parsed = Zero
    /\ decodeErrs = Zero /\ procErrs = Zero /\ slept = Zero
    /\ faults = Zero /\ closes = Zero /\ delivered = Zero
    /\ cur = [c \in Channels |-> NoData]
    /\ hexc = [c \in Channels |-> "none"]
    /\ DecIdle
    /\ HashIdle
    /\ NumIdle

Next ==
    \/ \E c \in Channels : CallSocket(c)
    \/ LiveDataSetup
    \/ \E c \in Channels : Connect(c)
    \/ \E c \in Channels : SendHandshake(c)
    \/ \E c \in Channels : Receive(c)
    \/ \E c \in Channels : HandlerDone(c)
    \/ \E c \in Channels : ReadError(c)
    \/ \E c \in Channels : ClosedOK(c)
    \/ \E c \in Channels : Sleep(c)
    \/ \E c \in Channels : Cancel(c)

Spec == Init /\ [][Next]_vars

\* the event loop resumes a coroutine whose await can complete
Fairness ==
    /\ \A c \in Channels : WF_vars(CallSocket(c))
    /\ WF_vars(LiveDataSetup)
    /\ \A c \in Channels : WF_vars(Connect(c))
    /\ \A c \in Channels : WF_vars(SendHandshake(c))
    /\ \A c \in Channels : WF_vars(HandlerDone(c))
    /\ \A c \in Channels : WF_vars(Sleep(c))

FairSpec == Spec /\ Fairness

\* a parsed frame of some channel is about to be given to the channel's
\* default processor
DecodeInit ==
    /\ dchan \in Channels
    /\ dframe \in FramesOf(dchan)
    /\ dres = NoResult
    /\ dpc = "ready"
    /\ SupIdle
    /\ HashIdle
    /\ NumIdle

DecodeSpec == DecodeInit /\ [][DecodeNext]_vars

\* each thread has an OrderBookSummary of its own
HashInit ==
    /\ orderbook \in [Snapshots -> SnapshotValues]
    /\ constructed = orderbook
    /\ arg = [t \in Threads |->
                 IF t = "thread_1" THEN "book_1" ELSE "book_2"]
    /\ HashLocalsInit
    /\ SupIdle
    /\ DecIdle
    /\ NumIdle

HashSpec == HashInit /\ [][HashNext]_vars

\* the two threads pass the same OrderBookSummary
SharedHashInit ==
    /\ \E o \in SnapshotValues : orderbook = [s \in Snapshots |-> o]
    /\ constructed = orderbook
    /\ arg = [t \in Threads |-> "book_1"]
    /\ HashLocalsInit
    /\ SupIdle
    /\ DecIdle
    /\ NumIdle

SharedHashSpec == SharedHashInit /\ [][HashNext]_vars

\* one set of arguments, on which the helpers of one group are called
NumInit ==
    /\ ngroup \in {"round", "places", "price"}
    /\ nx \in CASE ngroup = "round" -> RoundInputs
             [] ngroup = "places" -> PlacesInputs
             [] ngroup = "price" -> PriceInputs
    /\ nsig \in IF ngroup = "round" THEN SigDigits ELSE {0}
    /\ ntick \in IF ngroup = "price" THEN TickSizes ELSE {"0.1"}
    /\ nres = [f \in Helpers |-> Pending]
    /\ SupIdle
    /\ DecIdle
    /\ HashIdle

NumSpec == NumInit /\ [][NumNext]_vars

\* variant of HoldsEventLoop for time.sleep(1) in place of the awaited
\* asyncio.sleep(1): the sleeping coroutine keeps the event loop's thread
HoldsEventLoopWhileSleeping(c) == pc[c] = "sleeping"

\* every wait of a socket coroutine (connect, send, the async for,
\* process_event, asyncio.sleep) is awaited: while it waits the coroutine
\* is suspended and does not occupy the event loop
HoldsEventLoop(c) == FALSE

\* the event loop can resume coroutine c: no other coroutine occupies it
Runnable(c) == \A other \in Channels \ {c} : ~HoldsEventLoop(other)

\* two of the three coroutines of one client run as tasks of one event loop
TasksInit ==
    /\ \E running \in {r \in SUBSET Channels : Cardinality(r) = 2} :
          /\ pc = [c \in Channels |->
                     IF c \in running THEN "called" ELSE "idle"]
          /\ subs \in IF "live_data" \in running
                       THEN {<<Sub("clob_user", NoVal), Sub("activity", NoVal)>>}
                       ELSE {<<>>}
          /\ creds = IF running = {"market", "live_data"} THEN "none"
                     ELSE "creds"
    /\ handler \in [Channels -> {"default"}]
    /\ flag = FALSE
    /\ payload = <<>>
    /\ wire = [c \in Channels |-> NoFrame]
    /\ first = [c \in Channels |-> NoFrame]
    /\ done = Zero /\ curSeq = Zero
    /\ attempts = Zero /\ sent = Zero /\ calls = Zero /\ parsed = Zero
    /\ decodeErrs = Zero /\ procErrs = Zero /\ slept = Zero
    /\ faults = Zero /\ closes = Zero /\ delivered = Zero
    /\ cur = [c \in Channels |-> NoData]
    /\ hexc = [c \in Channels |-> "none"]
    /\ DecIdle
    /\ HashIdle
    /\ NumIdle

\* what the environment has done so far: failed transport operations,
\* normal closes and messages delivered, over all channels
RECURSIVE Total(_, _)
Total(f, S) ==
    IF S = {} THEN 0
    ELSE LET c == CHOOSE x \in S : TRUE IN f[c] + Total(f, S \ {c})
TaskEvents ==
    Total(faults, Channels) + Total(closes, Channels)
      + Total(delivered, Channels)

\* the environment stays within its budget of events
TaskBudget == TaskEvents' <= MaxTaskEvents

TasksNext ==
    \/ \E c \in Channels : Runnable(c) /\ CallSocket(c)
    \/ Runnable("live_data") /\ LiveDataSetup
    \/ \E c \in Channels : Runnable(c) /\ Connect(c) /\ TaskBudget
    \/ \E c \in Channels : Runnable(c) /\ SendHandshake(c) /\ TaskBudget
    \/ \E c \in Channels : Runnable(c) /\ Receive(c) /\ TaskBudget
    \/ \E c \in Channels : Runnable(c) /\ HandlerDone(c)
    \/ \E c \in Channels : Runnable(c) /\ ReadError(c) /\ TaskBudget
    \/ \E c \in Channels : Runnable(c) /\ ClosedOK(c) /\ TaskBudget
    \/ \E c \in Channels : Runnable(c) /\ Sleep(c)
    \/ \E c \in Channels : Runnable(c) /\ Cancel(c)

TasksSpec == TasksInit /\ [][TasksNext]_vars

----------------------------------------------------------------------------
(* Properties of the socket coroutines *)

\* C1: live_data_socket called with a subscription whose topic is
\* "clob_user" and with no credentials never connects and never sends: it
\* has either not run yet or has raised AuthenticationRequiredError, with
\* zero connection attempts and zero frames sent.
AuthRequiredBeforeAnySocket ==
    ( /\ pc["live_data"] # "idle"
      /\ creds = "none"
      /\ \E i \in DOMAIN subs : subs[i].topic = "clob_user" )
    => /\ pc["live_data"] \in {"called", "raised"}
       /\ attempts["live_data"] = 0
       /\ sent["live_data"] = 0

\* C1 witness: the call has raised AuthenticationRequiredError
AuthRequiredRaised ==
    /\ pc["live_data"] = "raised"
    /\ creds = "none"
    /\ \E i \in DOMAIN subs : subs[i].topic = "clob_user"
    /\ attempts["live_data"] = 0

\* C2: whenever a connection that reached Listening ends, whatever the
\* reason, the coroutine next waits the fixed delay (it enters the sleep of
\* RECONNECT_DELAY seconds), and a wait is followed by one connection
\* attempt; no attempt follows the end of a connection directly.
ConnectionEndGoesThroughDelay ==
    [][\A c \in Channels :
          /\ ( pc[c] = "listening" /\
               pc'[c] \notin {"listening", "handling", "cancelled"} )
             => pc'[c] = "sleeping" /\ slept'[c] = RECONNECT_DELAY
          /\ ( pc[c] = "sleeping" /\ pc'[c] \notin {"sleeping", "cancelled"} )
             => pc'[c] = "connecting" /\ attempts'[c] = attempts[c]
       ]_vars

\* C3: a transport failure (open, handshake send or read) is never
\* surfaced: the step in which it occurs enters the sleep of the fixed
\* delay, whatever the number of earlier failures; the only way a coroutine
\* ends with an error is live_data_socket's AuthenticationRequiredError
\* before any attempt; and a running coroutine eventually listens (or is
\* cancelled) once the transport stops failing.
TransportFailureRecovered ==
    /\ [][\A c \in Channels :
             /\ faults'[c] > faults[c]
                => pc'[c] = "sleeping" /\ slept'[c] = RECONNECT_DELAY
             /\ ( pc[c] = "sleeping" /\
                  pc'[c] \notin {"sleeping", "cancelled"} )
                => pc'[c] = "connecting"]_vars
    /\ [](\A c \in Channels :
             pc[c] = "raised" => c = "live_data" /\ attempts[c] = 0)
    /\ \A c \in Channels :
          (pc[c] \in Running) ~> (pc[c] \in {"listening", "cancelled"})

\* C3 witness: after two transport failures the coroutine listens again
\* and has handed a parsed message to the handler
RecoveredAfterFailures ==
    \E c \in Channels :
        /\ faults[c] = 2 /\ attempts[c] >= 3
        /\ pc[c] = "handling"

\* C4: a message that is not valid JSON is reported and the receive loop
\* goes on with the same connection: the handler is not called for it,
\* nothing is sent, no connection attempt is made and the coroutine is
\* again waiting for the next message.
BadFrameKeepsListening ==
    [][\A c \in Channels :
          (delivered'[c] > delivered[c] /\ parsed'[c] = parsed[c])
          => /\ decodeErrs'[c] = decodeErrs[c] + 1
             /\ calls'[c] = calls[c]
             /\ pc'[c] = "listening"
             /\ attempts'[c] = attempts[c] /\ sent'[c] = sent[c]
             /\ slept'[c] = slept[c]
       ]_vars

\* C4 witness: on the first connection a bad message was reported and the
\* message after it is being handled
NextFrameHandledAfterBadFrame ==
    \E c \in Channels :
        /\ decodeErrs[c] = 1 /\ delivered[c] = 2 /\ calls[c] = 1
        /\ pc[c] = "handling" /\ attempts[c] = 1

\* C5: when the handler raises, the failure is reported and the receive
\* loop goes on with the same connection; a default handler given a value
\* that is no object or an object without the discriminant does raise, and
\* is handled in this way.
HandlerFailureContained ==
    [][\A c \in Channels :
          (pc[c] = "handling" /\ pc'[c] \notin {"handling", "cancelled"})
          => /\ pc'[c] = "listening"
             /\ attempts'[c] = attempts[c] /\ sent'[c] = sent[c]
             /\ slept'[c] = slept[c]
             /\ hexc'[c] # "none" => procErrs'[c] = procErrs[c] + 1
             /\ hexc'[c] = "none" => procErrs'[c] = procErrs[c]
             /\ ( handler[c] = "default" /\
                  ( cur[c].k = "scalar" \/
                    ( cur[c].k = "obj" /\
                      (IF c = "live_data" THEN cur[c].ty ELSE cur[c].et)
                          = NoVal ) ) )
                => hexc'[c] \in {"TypeError", "KeyError"}
       ]_vars

\* C5 witness: the handler raised for the first message and the second
\* message is now with the handler, on the same connection
NextFrameHandledAfterHandlerFailure ==
    \E c \in Channels :
        /\ hexc[c] # "none" /\ procErrs[c] = 1
        /\ calls[c] = 2 /\ pc[c] = "handling" /\ attempts[c] = 1

----------------------------------------------------------------------------
(* Properties of the default event processors *)

\* the discriminant of an object on a channel
Disc(c, m) == IF c = "live_data" THEN m.ty ELSE m.et

Kinds(out) == [i \in 1..Len(out) |-> out[i].kind]

\* C6: an array-valued Market frame is decoded element by element: n
\* elements of which k are malformed give n-k orderbook-snapshot events, in
\* array order, and k validation-failure reports, wherever the malformed
\* elements are.
ArrayDecodedElementwise ==
    ( /\ dpc = "done" /\ dchan = "market" /\ dframe.k = "arr"
      /\ \A i \in DOMAIN dframe.items : dframe.items[i].k = "obj" )
    => LET IsSnapshot(item) ==
               item.et = "book" /\ item.shape = "OrderBookSummary"
           IsEvent(o) == o.kind = "event"
           IsReport(o) == o.kind = "errors"
           payloads == [i \in 1..Len(SelectSeq(dres.out, IsEvent)) |->
                           SelectSeq(dres.out, IsEvent)[i].payload]
       IN  /\ dres.exc = "none"
           /\ payloads = SelectSeq(dframe.items, IsSnapshot)
           /\ Len(SelectSeq(dres.out, IsReport))
                = Len(dframe.items) - Len(SelectSeq(dframe.items, IsSnapshot))

\* C7: every object frame handed to the User processor produces some
\* output; one whose event_type is neither "order" nor "trade" produces the
\* unrecognized outcome carrying the raw payload.
UserFrameNeverDropped ==
    ( dpc = "done" /\ dchan = "user" /\ dframe.k = "obj" /\ dframe.et # NoVal )
    => /\ Len(dres.out) > 0
       /\ dframe.et \notin {"order", "trade"}
          => dres.out = <<PrintMessage(dframe)>>

\* the spec's mapping of Market event_type values to payloads
MarketMapping ==
    [book |-> "OrderBookSummary", price_change |-> "PriceChanges",
     tick_size_change |-> "TickSizeChange",
     last_trade_price |-> "LastTradePrice"]

\* C8: a Market object frame is classified by its event_type alone: the
\* four listed values select the model of the mapping whatever the other
\* fields are, and every other value gives exactly the unrecognized outcome
\* carrying the frame, with no exception.
MarketClassifiedByEventType ==
    ( dpc = "done" /\ dchan = "market" /\ dframe.k = "obj" /\ dframe.et # NoVal )
    => /\ dres.exc = "none"
       /\ IF dframe.et \in DOMAIN MarketMapping
          THEN /\ Len(dres.out) >= 1
               /\ dres.out[1].kind \in {"event", "errors"}
               /\ dres.out[1].cls \in DOMAIN EventModels
               /\ EventModels[dres.out[1].cls].schema = MarketMapping[dframe.et]
               /\ dframe.et \in EventModels[dres.out[1].cls].lits
               /\ dres.out[1].kind = "event"
                  <=> dframe.shape = MarketMapping[dframe.et]
               /\ \A i \in DOMAIN dres.out : dres.out[i].kind # "unrecognized"
          ELSE dres.out = <<PrintMessage(dframe)>>

\* C8 witness: a tick_size_change frame became a TickSizeChangeEvent
MarketTickSizeChangeDecoded ==
    /\ dpc = "done" /\ dchan = "market"
    /\ dframe.et = "tick_size_change"
    /\ dres.out = <<PrintModel("TickSizeChangeEvent", dframe)>>

\* the spec's mapping of LiveData type values to payloads
LiveDataMapping ==
    [trades |-> "ActivityTrade", orders_matched |-> "ActivityTrade",
     comment_created |-> "Comment", comment_removed |-> "Comment",
     reaction_created |-> "Reaction", reaction_removed |-> "Reaction",
     request_created |-> "Request", request_edited |-> "Request",
     request_canceled |-> "Request", request_expired |-> "Request",
     quote_created |-> "Quote", quote_edited |-> "Quote",
     quote_canceled |-> "Quote", quote_expired |-> "Quote",
     subscribe |-> "CryptoPriceSubscribe", update |-> "CryptoPriceUpdate",
     agg_orderbook |-> "AggOrderBookSummary", price_change |-> "PriceChanges",
     last_trade_price |-> "LastTradePrice",
     tick_size_change |-> "TickSizeChange",
     market_created |-> "LiveDataClobMarket",
     market_resolved |-> "LiveDataClobMarket",
     order |-> "OrderEvent", trade |-> "TradeEvent"]

\* C9: a LiveData frame is classified by its type field: each listed value
\* selects one model, the one of the mapping, which accepts that type
\* value; no value selects two models; every other value gives exactly the
\* unrecognized outcome carrying the frame.
LiveDataClassifiedByType ==
    ( dpc = "done" /\ dchan = "live_data" /\ dframe.k = "obj"
      /\ dframe.ty # NoVal )
    => LET selected == {dres.out[i].cls : i \in DOMAIN dres.out} \ {"none"}
       IN  /\ dres.exc = "none"
           /\ Cardinality(selected) <= 1
           /\ IF dframe.ty \in DOMAIN LiveDataMapping
              THEN /\ Cardinality(selected) = 1
                   /\ \A cls \in selected :
                         /\ cls \in DOMAIN EventModels
                         /\ EventModels[cls].field = "type"
                         /\ EventModels[cls].schema = LiveDataMapping[dframe.ty]
                         /\ dframe.ty \in EventModels[cls].lits
                   /\ \A i \in DOMAIN dres.out :
                         dres.out[i].kind # "unrecognized"
              ELSE dres.out = <<PrintMessage(dframe)>>

\* C9 witness: a quote_expired frame became a QuoteEvent
LiveDataQuoteExpiredDecoded ==
    /\ dpc = "done" /\ dchan = "live_data"
    /\ dframe.ty = "quote_expired"
    /\ dres.out = <<PrintModel("QuoteEvent", dframe)>>

\* the discriminant values the spec lists for a channel
KnownDiscriminants(c) ==
    CASE c = "market" -> DOMAIN MarketMapping
      [] c = "user" -> {"order", "trade"}
      [] c = "live_data" -> DOMAIN LiveDataMapping

\* C10: on every channel, an object frame with a known discriminant gives
\* either one typed event or a decode-failure report (the structural
\* errors and the raw payload) and never the unrecognized outcome, and an
\* object frame with an unknown discriminant gives the unrecognized outcome
\* and never a decode-failure report.
FailureAndUnrecognizedDisjoint ==
    ( dpc = "done" /\ dframe.k = "obj" /\ Disc(dchan, dframe) # NoVal )
    => /\ dres.exc = "none"
       /\ IF Disc(dchan, dframe) \in KnownDiscriminants(dchan)
          THEN \/ Kinds(dres.out) = <<"event">>
               \/ /\ Len(dres.out) = 2
                  /\ {dres.out[1].kind, dres.out[2].kind} = {"errors", "raw"}
                  /\ \A i \in 1..2 : dres.out[i].payload = dframe
          ELSE dres.out = <<PrintMessage(dframe)>>

\* C11: once live_data_socket is past its set-up, the subscriptions of the
\* payload are the caller's entries in the caller's order and number;
\* every entry whose topic is "clob_user" carries the dumped credentials in
\* clob_auth and differs from the caller's entry in nothing else, every
\* other entry is the caller's entry with no clob_auth, and with no
\* "clob_user" entry the payload holds no credentials even if the caller
\* supplied some. The frame on the wire carries that same payload.
PayloadCredsOnlyInClobUser ==
    pc["live_data"] \in Running \cup {"cancelled"}
    => /\ Len(payload) = Len(subs)
       /\ \A i \in 1..Len(subs) :
             /\ payload[i].topic = subs[i].topic
             /\ payload[i].clob_auth =
                    IF subs[i].topic = "clob_user" THEN "model_dump:creds"
                    ELSE NoVal
       /\ ( sent["live_data"] > 0
            => wire["live_data"].subscriptions = payload )

\* C11 witness: a subscribe frame is on the wire whose payload has one
\* "clob_user" entry holding the credentials and one entry without them
PayloadMixedSent ==
    /\ pc["live_data"] = "listening" /\ creds = "creds"
    /\ Len(subs) = 2
    /\ \E i, j \in 1..2 :
          /\ subs[i].topic = "clob_user" /\ subs[j].topic = "activity"
          /\ wire["live_data"].subscriptions[i].clob_auth = ModelDump(creds)
          /\ wire["live_data"].subscriptions[j] = subs[j]

\* C12: within one channel at most one process_event call is in progress;
\* the next message is taken from the socket (parsed or handed over) only
\* when every call made so far has ended, by returning or by raising; and
\* each call receives the message that has just arrived, so the arrival
\* numbers of the messages the handler sees strictly increase.
FramesHandledOneAtATime ==
    [][ \A c \in Channels :
          /\ calls[c] - done[c] \in {0, 1}
          /\ calls'[c] - done'[c] \in {0, 1}
          /\ delivered'[c] # delivered[c] => calls[c] = done[c]
          /\ calls'[c] # calls[c]
             => /\ calls'[c] = calls[c] + 1
                /\ calls[c] = done[c]
                /\ curSeq'[c] = delivered'[c]
                /\ curSeq'[c] > curSeq[c]
          /\ done'[c] # done[c]
             => /\ done'[c] = done[c] + 1
                /\ calls[c] = done[c] + 1
                /\ delivered'[c] = delivered[c] ]_vars

\* C12 witness: the call for the first message has ended and the call for
\* the second message is in progress
SecondCallAfterFirstEnded ==
    \E c \in Channels :
        /\ pc[c] = "handling"
        /\ calls[c] = 2 /\ done[c] = 1 /\ curSeq[c] = 2

\* C19: on each connection the only frame sent is the handshake: it is
\* sent once, after websockets.connect succeeded and before any message
\* is received or given to process_event; and on every connection of a
\* run it is the same frame, made of the arguments of the call only
\* (token ids and flag, or the credentials, or the subscribe payload),
\* with no key that depends on the messages received before.
OneIdenticalHandshakePerConnection ==
    [][ \A c \in Channels :
          /\ sent[c] <= 1 /\ sent'[c] <= 1
          /\ pc[c] \in {"listening", "handling"} => sent[c] = 1
          /\ ( delivered'[c] # delivered[c] \/ calls'[c] # calls[c] )
             => sent[c] = 1 /\ sent'[c] = 1
          /\ wire'[c] # wire[c] => sent'[c] = sent[c] + 1
          /\ sent'[c] > sent[c]
             => /\ pc[c] = "handshaking" /\ attempts[c] >= 1
                /\ delivered'[c] = delivered[c] /\ calls'[c] = calls[c]
                /\ wire'[c] = first'[c]
                /\ wire'[c] =
                     CASE c = "market" ->
                            Frame({"assets_ids", "custom_feature_enabled"},
                                  TokenIds, flag, NoVal, NoVal, <<>>)
                       [] c = "user" ->
                            Frame({"auth"}, <<>>, FALSE,
                                  "model_dump_by_alias:creds", NoVal, <<>>)
                       [] c = "live_data" ->
                            Frame({"action", "subscriptions"}, <<>>, FALSE,
                                  NoVal, "subscribe", payload) ]_vars

\* C19 witness: a message was received on the first connection, the
\* connection was lost, and the second connection listens after the same
\* handshake as the first
SameHandshakeAfterReconnect ==
    \E c \in Channels :
        /\ pc[c] = "listening" /\ attempts[c] = 2 /\ parsed[c] >= 1
        /\ sent[c] = 1 /\ wire[c] = first[c] /\ wire[c] # NoFrame

\* C17: every typed event a default processor prints was built from a
\* wire object that itself carries the discriminant of the event's class
\* (event_type on the Market and User channels, type on LiveData): the
\* class is never chosen for an object without a discriminant or with
\* another one. For an object frame that object is the frame; for a Market
\* array it is an element of the array whose own event_type is "book".
EventCarriesFrameDiscriminant ==
    dpc = "done"
    => \A i \in 1..Len(dres.out) :
          dres.out[i].kind = "event"
          => LET o == dres.out[i]
             IN  /\ Disc(dchan, o.payload) # NoVal
                 /\ Disc(dchan, o.payload) \in EventModels[o.cls].lits
                 /\ IF dframe.k = "arr"
                    THEN /\ o.cls = "OrderBookSummaryEvent"
                         /\ o.payload.et = "book"
                         /\ \E j \in 1..Len(dframe.items) :
                               o.payload = dframe.items[j]
                    ELSE o.payload = dframe

\* C17 witness: of a Market array whose first element has event_type
\* "book" and whose second element has none, only the first became an
\* orderbook-snapshot event
OnlyBookElementBecameEvent ==
    /\ dpc = "done" /\ dchan = "market" /\ dframe.k = "arr"
    /\ Len(dframe.items) >= 2
    /\ dframe.items[1].et = "book"
    /\ dframe.items[2] = Obj(NoVal, NoVal, NoVal, "OrderBookSummary")
    /\ Len(dres.out) = 1
    /\ dres.out[1] = PrintModel("OrderBookSummaryEvent", dframe.items[1])

\* C13: with a snapshot no one else touches, when a call of
\* generate_orderbook_summary_hash has returned the snapshot has the hash
\* field, and every other field, it had when the call began, and the
\* successive calls of a thread on its snapshot returned the same value.
HashDeterministicSnapshotRestored ==
    \A t \in Threads :
        /\ hpc[t] = "returned" => orderbook[arg[t]] = atEntry[t]
        /\ \A i, j \in 1..Len(rets[t]) : rets[t][i] = rets[t][j]

\* C13 witness: a thread's second call has returned and its snapshot holds
\* the server's hash
SecondHashCallReturned ==
    \E t \in Threads :
        /\ hpc[t] = "returned" /\ Len(rets[t]) = 2
        /\ orderbook[arg[t]].hash \in ServerHashes
        /\ orderbook[arg[t]] = constructed[arg[t]]

\* C14: the value returned does not depend on the snapshot's hash field:
\* the field is "" when the snapshot is serialized, and calls on
\* snapshots that agree in every field but hash return the same value.
ComputedHashIgnoresHashField ==
    /\ \A t \in Threads :
          hpc[t] = "compute" => orderbook[arg[t]].hash = ""
    /\ \A t, u \in Threads :
          constructed[arg[t]].body = constructed[arg[u]].body
          => \A i \in 1..Len(rets[t]), j \in 1..Len(rets[u]) :
                rets[t][i] = rets[u][j]

\* C14 witness: two snapshots that differ in hash only gave the same value
SameValueForDifferentHashes ==
    /\ constructed["book_1"].body = constructed["book_2"].body
    /\ constructed["book_1"].hash # constructed["book_2"].hash
    /\ Len(rets["thread_1"]) >= 1 /\ Len(rets["thread_2"]) >= 1
    /\ rets["thread_1"][1] = rets["thread_2"][1]

\* C20: two threads call generate_orderbook_summary_hash on the same
\* serializable snapshot: under every interleaving each call returns the
\* value a solitary call returns (the SHA-1 of the snapshot serialized
\* with hash ""), and when both threads are outside the function the
\* snapshot's hash field is the hash the server supplied.
ThreadSafeOnSharedSnapshot ==
    constructed["book_1"].serializable
    => /\ \A t \in Threads : \A i \in 1..Len(rets[t]) :
             rets[t][i] = Sha1Hex([hash |-> "",
                                   body |-> constructed["book_1"].body])
       /\ ( \A t \in Threads : hpc[t] \in {"start", "returned"} )
          => orderbook["book_1"].hash = constructed["book_1"].hash

\* C15: price_valid(price, tick_size) returns true exactly when
\* tick_size <= price <= 1 - tick_size, both bounds included, for each of
\* the four tick sizes; for a finite price it always returns. The bounds
\* are compared as integers in units of the finer of the two exponents.
PriceValidIffWithinInclusiveBounds ==
    ( ngroup = "price" /\ nres["price_valid"].st # "pending" )
    => LET r == nres["price_valid"]
           k == CASE ntick = "0.1" -> 1 [] ntick = "0.01" -> 2
                  [] ntick = "0.001" -> 3 [] ntick = "0.0001" -> 4
           m == IF nx.exp < -k THEN nx.exp ELSE -k
           price == (IF nx.sign = 1 THEN -1 ELSE 1) * nx.coef
                      * Pow10(nx.exp - m)
           tick == Pow10(-k - m)
           one == Pow10(-m)
           within == /\ nx.kind = "finite"
                     /\ tick <= price /\ price <= one - tick
       IN  /\ (r.st = "returned" /\ r.bool) <=> within
           /\ nx.kind = "finite" => r.st = "returned"

\* C15 witness: the price equal to 1 - tick_size is valid
UpperBoundPriceValid ==
    /\ ngroup = "price" /\ ntick = "0.01" /\ nx = Dec(0, 99, -2)
    /\ nres["price_valid"] = ReturnedBool(TRUE)

\* the three rounding helpers
Rounders == {"round_down", "round_normal", "round_up"}

\* the exponent of the unit in which the C16 formulas compare values
UnitDigits == IF MaxFrac > MaxSigDigits THEN MaxFrac ELSE MaxSigDigits

\* the result of rounding helper f is the multiple of 10^-nsig that its
\* rounding direction selects for nx
RoundedAsNamed(f) ==
    LET r == nres[f].dec
        x == IF nx.coef = 0 THEN 0 ELSE nx.coef * Pow10(nx.exp + UnitDigits)
        step == Pow10(UnitDigits - nsig)
        v == r.coef * step
    IN  /\ r.kind = "finite" /\ r.sign = 0 /\ r.exp = -nsig
        /\ f = "round_down" => v <= x /\ x < v + step
        /\ f = "round_up" => v - step < x /\ x <= v
        /\ f = "round_normal" => -step <= 2 * (x - v) /\ 2 * (x - v) < step
        /\ nx.exp >= -nsig => v = x

\* what the three results, once all are there, are to one another
RoundedInOrder ==
    LET down == nres["round_down"].dec.coef
        normal == nres["round_normal"].dec.coef
        up == nres["round_up"].dec.coef
    IN  /\ down <= normal /\ normal <= up
        /\ up - down \in {0, 1}

\* C16 as claimed: for every non-negative decimal x and digit count d
\* each rounding helper returns the multiple of 10^-d its name promises.
RoundingTotalOnNonNegative ==
    ( ngroup = "round" /\ nx.sign = 0 )
    => /\ \A f \in Rounders :
             nres[f].st # "pending"
             => nres[f].st = "returned" /\ RoundedAsNamed(f)
       /\ ( \A f \in Rounders : nres[f].st = "returned" ) => RoundedInOrder

\* C16 amended: for a non-negative x whose digits down to 10^-d are at
\* most PREC, round_down gives the greatest multiple of 10^-d that is
\* <= x, round_up the least that is >= x, round_normal the nearest with an
\* exact half rounded up; the results are ordered down <= normal <= up,
\* up - down is 0 or 10^-d, and an x with at most d fractional digits is
\* returned unchanged in value. For any other non-negative x each helper
\* raises InvalidOperation.
RoundingWithinPrecision ==
    ( ngroup = "round" /\ nx.sign = 0 )
    => LET fits == \/ nx.coef = 0
                   \/ Digits(nx.coef) + nx.exp + nsig <= PREC
       IN  /\ \A f \in Rounders :
                 nres[f].st # "pending"
                 => IF fits
                    THEN nres[f].st = "returned" /\ RoundedAsNamed(f)
                    ELSE nres[f] = Raised("InvalidOperation")
           /\ ( \A f \in Rounders : nres[f].st = "returned" )
              => RoundedInOrder

\* C16 witness: 0.125 at two digits is 0.12 rounded down and 0.13 rounded
\* to nearest and up
HalfRoundedThreeWays ==
    /\ ngroup = "round" /\ nx = Dec(0, 125, -3) /\ nsig = 2
    /\ nres["round_down"] = ReturnedDec(Dec(0, 12, -2))
    /\ nres["round_normal"] = ReturnedDec(Dec(0, 13, -2))
    /\ nres["round_up"] = ReturnedDec(Dec(0, 13, -2))

\* C18: decimal_places(x) returns, for a finite x, the number of digits
\* after the decimal point of x as written (the negated exponent), which
\* is 0 and never negative for an x with exponent >= 0; for a NaN or an
\* infinity it raises TypeError and returns nothing.
DecimalPlacesNonNegativeOrTypeError ==
    ( ngroup = "places" /\ nres["decimal_places"].st # "pending" )
    => LET r == nres["decimal_places"]
       IN  IF nx.kind = "finite"
           THEN /\ r.st = "returned"
                /\ r.num >= 0
                /\ nx.exp < 0 => r.num = -nx.exp
                /\ nx.exp >= 0 => r.num = 0
           ELSE r = Raised("TypeError")

\* C18 witness: decimal_places of a NaN raised TypeError
DecimalPlacesOfNaNRaised ==
    /\ ngroup = "places" /\ nx.kind = "NaN"
    /\ nres["decimal_places"].st = "raised"
    /\ nres["decimal_places"].exc = "TypeError"

\* C21: whenever a thread is outside generate_orderbook_summary_hash
\* after a call on a snapshot of its own, whether the call returned a hash
\* or left because serialization raised, the snapshot's hash field is the
\* one it had when the call began.
HashFieldSameOnEveryExit ==
    \A t \in Threads :
        hpc[t] \in {"returned", "raised"}
        => orderbook[arg[t]].hash = atEntry[t].hash

\* the topic values a LiveData frame is tried with
TopicValues == Topics \cup {"new_topic", NoVal}

\* what _process_live_data_event gives for the frame of this run with its
\* topic replaced
WithTopic(topic) ==
    _process_live_data_event(EventWrapper([dframe EXCEPT !.topic = topic]))

\* the event models named in a processor's output
ClassesIn(out) == {out[i].cls : i \in DOMAIN out} \ {"none"}

\* C23 as claimed: a LiveData frame and the same frame with any other
\* topic decode to the same outcome kind: the same typed event, or both
\* unrecognized.
TopicNoInfluenceOnOutcomeKind ==
    ( dpc = "done" /\ dchan = "live_data" /\ dframe.k = "obj" )
    => \A topic \in TopicValues :
          /\ WithTopic(topic).exc = dres.exc
          /\ Kinds(WithTopic(topic).out) = Kinds(dres.out)
          /\ ClassesIn(WithTopic(topic).out) = ClassesIn(dres.out)

\* C23 amended: the topic has no influence on the dispatch: a LiveData
\* frame and the same frame with any other topic are both unrecognized or
\* are both given to the same event model, chosen by type; they decode to
\* the same outcome kind when both topics are among the topic literals of
\* that model, a typed event is built only from a frame whose topic is
\* one of them (otherwise the outcome is a validation-failure report),
\* and the event carries the frame's topic.
TopicNoInfluenceOnDispatch ==
    ( dpc = "done" /\ dchan = "live_data" /\ dframe.k = "obj" )
    => \A topic \in TopicValues :
          LET other == WithTopic(topic)
              declared == UNION {EventModels[cls].topics :
                                    cls \in ClassesIn(dres.out)}
          IN  /\ other.exc = dres.exc
              /\ ClassesIn(other.out) = ClassesIn(dres.out)
              /\ Kinds(other.out) = <<"unrecognized">>
                    <=> Kinds(dres.out) = <<"unrecognized">>
              /\ ( topic \in declared /\ dframe.topic \in declared )
                    => Kinds(other.out) = Kinds(dres.out)
              /\ \A i \in DOMAIN dres.out :
                    dres.out[i].kind = "event"
                    => /\ dframe.topic \in declared
                       /\ dres.out[i].payload.topic = dframe.topic

\* C23 witness: a trades frame with the topic "comments" was given to
\* ActivityTradeEvent, as it is with the topic "activity", and gave a
\* validation-failure report where that one gives the typed event
TradesFrameWithOtherTopicReported ==
    /\ dpc = "done" /\ dchan = "live_data"
    /\ dframe = Obj(NoVal, "trades", "comments", "ActivityTrade")
    /\ Kinds(dres.out) = <<"errors", "raw">>
    /\ ClassesIn(dres.out) = {"ActivityTradeEvent"}
    /\ Kinds(WithTopic("activity").out) = <<"event">>

\* C24: live_data_socket leaves the caller's subscriptions list as it
\* was passed: no step changes its entries, their number or their order,
\* and none of the caller's entries ever holds a clob_auth field, also
\* when the payload carries the credentials.
CallerSubscriptionsUntouched ==
    [][ /\ subs' = subs
        /\ \A i \in 1..Len(subs') : subs'[i].clob_auth = NoVal ]_vars

\* C24 witness: the payload sent holds the credentials in its clob_user
\* entry and the caller's entry at that place holds none
CredsInPayloadNotInCallerEntry ==
    /\ pc["live_data"] = "listening"
    /\ \E i \in 1..Len(subs) :
          /\ subs[i] = Sub("clob_user", NoVal)
          /\ payload[i].clob_auth = ModelDump(creds)
          /\ wire["live_data"].subscriptions[i].clob_auth = ModelDump(creds)

\* C25: on every channel the number of process_event invocations equals
\* the number of messages json.loads accepted, and with the messages it
\* rejected they make up the messages received. An invocation happens
\* only in the step that takes a new message from the socket, once, for
\* that message (its arrival number) and with a parsed JSON value; a
\* message that does not parse is reported and invokes nothing; and a
\* step that takes no message (failure, delay, reconnect, handshake)
\* invokes nothing, so no message reaches the handler a second time.
HandlerInvokedOncePerParsedFrame ==
    [][ \A c \in Channels :
          /\ calls[c] = parsed[c] /\ calls'[c] = parsed'[c]
          /\ parsed'[c] + decodeErrs'[c] = delivered'[c]
          /\ delivered'[c] \in {delivered[c], delivered[c] + 1}
          /\ delivered'[c] = delivered[c]
             => calls'[c] = calls[c] /\ curSeq'[c] = curSeq[c]
          /\ delivered'[c] # delivered[c]
             => \/ /\ calls'[c] = calls[c] + 1
                   /\ decodeErrs'[c] = decodeErrs[c]
                   /\ curSeq'[c] = delivered'[c]
                   /\ cur'[c] \in {m.data : m \in {x \in SampleMessages(c) :
                                                      x.valid}}
                \/ /\ calls'[c] = calls[c]
                   /\ decodeErrs'[c] = decodeErrs[c] + 1
                   /\ cur'[c] = cur[c] ]_vars

\* C25 witness: a connection was lost and replaced; of the two messages
\* received one parsed and was handled, the other did not parse
OneCallForTwoFramesAcrossReconnect ==
    \E c \in Channels :
        /\ pc[c] = "listening" /\ attempts[c] = 2 /\ faults[c] = 1
        /\ delivered[c] = 2 /\ parsed[c] = 1 /\ decodeErrs[c] = 1
        /\ calls[c] = 1 /\ done[c] = 1 /\ curSeq[c] = 2

\* everything the model keeps for one channel
ChannelState(c) ==
    <<pc[c], handler[c], attempts[c], sent[c], wire[c], first[c], cur[c],
      calls[c], done[c], curSeq[c], parsed[c], decodeErrs[c], procErrs[c],
      hexc[c], slept[c], faults[c], closes[c], delivered[c]>>

\* C22: with two channels running as tasks, while one waits out its
\* reconnect delay the other can take its next step, whichever it is:
\* connect, send its handshake, receive a message (when the server has
\* one) and end a handler invocation. And each step changes the state of
\* one channel only: in particular a step in which a transport operation
\* of one channel fails leaves the other channel's position, connection
\* count, delay and handshake as they were.
ChannelsDoNotBlockOneAnother ==
    [][ \A a \in Channels : \A b \in Channels \ {a} :
          /\ pc[a] = "sleeping"
             => /\ pc[b] = "connecting"
                   => ENABLED (Runnable(b) /\ Connect(b))
                /\ pc[b] = "handshaking"
                   => ENABLED (Runnable(b) /\ SendHandshake(b))
                /\ pc[b] = "listening" /\ delivered[b] < MaxDelivered
                   => ENABLED (Runnable(b) /\ Receive(b))
                /\ pc[b] = "handling"
                   => ENABLED (Runnable(b) /\ HandlerDone(b))
          /\ ChannelState(a)' # ChannelState(a)
             => ChannelState(b)' = ChannelState(b)
          /\ faults'[a] # faults[a]
             => /\ pc'[b] = pc[b] /\ attempts'[b] = attempts[b]
                /\ slept'[b] = slept[b] /\ sent'[b] = sent[b]
                /\ wire'[b] = wire[b] ]_vars

\* C22 witness: one channel is in its reconnect delay after a failure and
\* the other, which never failed, has connected and is in a handler call
HandlerRunsWhileOtherChannelSleeps ==
    \E a \in Channels : \E b \in Channels \ {a} :
        /\ pc[a] = "sleeping" /\ faults[a] = 1 /\ slept[a] = RECONNECT_DELAY
        /\ pc[b] = "handling" /\ calls[b] = 1
        /\ faults[b] = 0 /\ slept[b] = 0 /\ attempts[b] = 1

====
